---- MODULE Spec2Model ----
(***************************************************************************)
(* Model of the LMM controller (src/src/llmcontroller.py): the control     *)
(* loop manage_lfr_instances with its reconciliation pass, the health      *)
(* evaluation monitor_lfr_health / _check_endpoint_health and the bounded  *)
(* recovery _handle_unhealthy_deployment.                                  *)
(***************************************************************************)
EXTENDS Integers, Sequences, FiniteSets, TLC

\* ------------------------------------------------------------------ bounds
\* largest replica count a workload is scaled to in the model
MaxReplicas == 3
\* largest number of member pods a workload lists in the model
MaxPods == 2
\* longest log_sources list of a configuration file in the model
MaxSources == 2
\* largest instances.min of a configuration file in the model
MaxMin == 2
\* longest list handed to retry_restart in the model
MaxList == 2

\* ------------------------------------------------------- program constants
\* max_retries of _handle_unhealthy_deployment
max_retries == 3
\* time.sleep(10) of _handle_unhealthy_deployment: the settle delay
settle_delay == 10
\* time.sleep(5) of _handle_unhealthy_deployment: the delay before the next retry
retry_delay == 5
\* time.sleep(30) of manage_lfr_instances: the control loop interval
cycle_interval == 30
\* time.sleep(60) of manage_lfr_instances: the wait after an error
backoff_interval == 60
\* max_retries of retry_restart (its default, the value the monitor uses)
retry_restart_max_retries == 3

\* ------------------------------------------------------------------ inputs
\* the source names that occur in configuration files and on the cluster
Names == {"a", "b"}

\* the order in which the cluster API lists the workloads
ListOrder == <<"a", "b">>

\* the value of status.available_replicas when the cluster does not report it
None == -1

\* one entry of config['log_sources']
SourceEntry(n, e, m) == [name |-> n, enabled |-> e, min |-> m]

\* the entries a configuration file may hold
SourceEntries == {SourceEntry(n, e, m) : n \in Names, e \in BOOLEAN, m \in 1..MaxMin}

\* the log_sources lists of the configuration files: unique names
LogSourceLists ==
    {<<>>}
    \cup {<<s>> : s \in SourceEntries}
    \cup (IF MaxSources < 2 THEN {}
          ELSE {q \in {<<s1, s2>> : s1 \in SourceEntries, s2 \in SourceEntries} :
                   q[1].name # q[2].name})

\* what reading the configuration file yields: a valid log_sources list, or
\* one of the failures of _load_config / _validate_config
LoadFailures == {"missing", "invalid", "nofield"}

\* outcome of one call of the cluster API
ApiOutcomes == {"ok", "ApiException"}

\* a workload object of the cluster: absent, or present with spec.replicas
Absent == [present |-> FALSE, replicas |-> 0]
Workload(r) == [present |-> TRUE, replicas |-> r]
Workloads == {Absent} \cup {Workload(r) : r \in 1..MaxReplicas}

\* a member pod as the endpoint check sees it: no pod_ip yet, or a pod_ip
\* whose GET /health answers 200 ("ok"), another status ("bad") or raises
\* (timeout, connection error: "err")
PodKinds == {"noip", "ok", "bad", "err"}

RECURSIVE SeqsUpTo(_, _)
SeqsUpTo(S, n) ==
    IF n = 0 THEN {<<>>}
    ELSE LET shorter == SeqsUpTo(S, n - 1)
         IN  shorter \cup {Append(q, x) : q \in {p \in shorter : Len(p) = n - 1}, x \in S}

PodLists == SeqsUpTo(PodKinds, MaxPods)

\* the Docker monitor's instances, by name
lfr_instances == <<"LFR-1", "LFR-2">>
InstanceNames == {lfr_instances[i] : i \in 1..Len(lfr_instances)}
\* what requests.get on a health url gives: status 200, another status, or
\* an exception
Responses == {"200", "500", "error"}
\* what subprocess.run of "docker restart" gives with check=True
SubprocessOutcomes == {"ok", "CalledProcessError"}
\* the lists retry_restart may be called with
InstanceLists == SeqsUpTo(InstanceNames, MaxList)

\* status.available_replicas of a workload: not reported, or a count
Availabilities == {None} \cup (0..MaxReplicas)

VARIABLES
    pc,              \* position of manage_lfr_instances in its cycle
    config,          \* self.config['log_sources']
    cluster,         \* the workloads of the namespace, by source name
    current_sources, \* the snapshot taken at the start of the pass
    signal,          \* check_scaling_needs of each source in this pass
    idx,             \* index of the next entry of config['log_sources']
    actions,         \* the Create/Scale/Delete calls made in this pass
    error,           \* what raised into the control loop's except clause
    deployments,     \* deployments.items of monitor_lfr_health
    hidx,            \* index of the next item of deployments
    health_status,   \* the dict health_status: name -> verdict
    ridx,            \* index of the next item of health_status.items()
    rec,             \* the running call of _handle_unhealthy_deployment
    episodes,        \* number of calls of _handle_unhealthy_deployment in progress, by source
    evalIn,          \* inputs of one health evaluation
    evalOut,         \* its results
    waits,           \* the time.sleep calls of the control loop since the cycle began
    started,         \* number of calls of _handle_unhealthy_deployment made in this cycle, by source
    mpc,             \* position of monitor_lfr_instances / retry_restart
    lidx,            \* index of the next item of lfr_instances
    unhealthy_instances, \* the list unhealthy_instances
    uidx,            \* index of the current item of retry_restart's list
    attempt,         \* the attempts retry_restart has made for the current item
    responses,       \* what the health url of each instance gave in this cycle
    handed,          \* how often each instance was in a list given to retry_restart in this cycle
    tries,           \* restart_instance calls made, by item of the list
    restarted,       \* whether a restart_instance call succeeded, by item of the list
    failure_logged   \* whether the failure was logged, by item of the list

dockerVars == <<mpc, lidx, unhealthy_instances, uidx, attempt, responses, handed,
                tries, restarted, failure_logged>>

vars == <<pc, config, cluster, current_sources, signal, idx, actions, error,
          deployments, hidx, health_status, ridx, rec, episodes, evalIn, evalOut, dockerVars,
          waits, started>>

loopVars == <<pc, config, cluster, current_sources, signal, idx, actions, error,
              deployments, hidx, health_status, ridx, rec, episodes, waits, started>>

NoSignal == [n \in Names |-> FALSE]
NoSnapshot == [n \in Names |-> Absent]
NoHealth == [n \in Names |-> "none"]
NoneStarted == [n \in Names |-> 0]
NoResponses == [n \in InstanceNames |-> "none"]
NoneHanded == [n \in InstanceNames |-> 0]

\* the Docker monitor before its first cycle
MonitorStart ==
    /\ mpc = "check"
    /\ lidx = 1
    /\ unhealthy_instances = <<>>
    /\ uidx = 1
    /\ attempt = 0
    /\ responses = NoResponses
    /\ handed = NoneHanded
    /\ tries = <<>>
    /\ restarted = <<>>
    /\ failure_logged = <<>>
NoEpisode == [source |-> "", retry_count |-> 0, restarts |-> 0, unhealthy |-> 0,
              errors |-> 0, healthyAt |-> 0, trail |-> <<>>, sleeps |-> <<>>,
              workload |-> "none", outcome |-> "none"]
NoEval == [replicas |-> 0, available |-> None, list |-> "ok", pods |-> <<>>]
NoVerdict == [evaluated |-> FALSE, deployment_healthy |-> FALSE,
              endpoint_healthy |-> FALSE, verdict |-> FALSE, raised |-> FALSE]

\* --------------------------------------------------------- pure functions
\* deployment_healthy of monitor_lfr_health
deployment_healthy(available_replicas, desired_replicas) ==
    available_replicas # None /\ available_replicas = desired_replicas

\* the loop over pods.items of _check_endpoint_health, from item i on:
\* "True" (return True), "False" (return False) or "raise" (requests.get raised)
RECURSIVE ProbePods(_, _)
ProbePods(pods, i) ==
    IF i > Len(pods) THEN "True"
    ELSE IF pods[i] = "noip" THEN ProbePods(pods, i + 1)
    ELSE IF pods[i] = "err" THEN "raise"
    ELSE IF pods[i] = "bad" THEN "False"
    ELSE ProbePods(pods, i + 1)

\* the try block of _check_endpoint_health: list the pods, then probe them
EndpointTry(list, pods) ==
    IF list = "ApiException" THEN "raise" ELSE ProbePods(pods, 1)

\* the mutant of _check_endpoint_health whose except clause is missing
CheckEndpointHealthUncaught(list, pods) ==
    [result |-> EndpointTry(list, pods) = "True",
     raised |-> EndpointTry(list, pods) = "raise"]

\* the mutant of _check_endpoint_health that counts a pod without pod_ip as failing
CheckEndpointHealthNoIpFails(list, pods) ==
    [result |-> EndpointTry(list, pods) = "True"
                /\ \A i \in 1..Len(pods) : pods[i] # "noip",
     raised |-> FALSE]

\* _check_endpoint_health: what it returns, and whether an exception leaves it
CheckEndpointHealth(list, pods) ==
    [result |-> EndpointTry(list, pods) = "True", raised |-> FALSE]

\* the mutant of the verdict that tolerates more available than desired replicas
HealthVerdictAtLeast(replicas, available, endpoint) ==
    (available # None /\ available >= replicas) /\ endpoint

\* health_status[source_name] of monitor_lfr_health
HealthVerdict(replicas, available, endpoint) ==
    deployment_healthy(available, replicas) /\ endpoint

\* check_scaling_needs(source_name): the scale-up predicate of the pass
check_scaling_needs(name) == signal[name]

\* get_current_replicas(source_name): spec.replicas of the workload
get_current_replicas(name) == cluster[name].replicas

NoAction == [kind |-> "None", name |-> "", replicas |-> 0]
Create(n, r) == [kind |-> "Create", name |-> n, replicas |-> r]
Scale(n, r) == [kind |-> "Scale", name |-> n, replicas |-> r]
Delete(n) == [kind |-> "Delete", name |-> n, replicas |-> 0]

\* the mutant of the loop body that deletes a disabled source without
\* looking it up in current_sources
ReconcileCallDeleteUnchecked(source) ==
    IF source.enabled
    THEN IF ~current_sources[source.name].present
         THEN Create(source.name, source.min)
         ELSE IF check_scaling_needs(source.name)
              THEN Scale(source.name, get_current_replicas(source.name) + 1)
              ELSE NoAction
    ELSE Delete(source.name)

\* the call the body of "for source in self.config['log_sources']" makes
ReconcileCall(source) ==
    IF source.enabled
    THEN IF ~current_sources[source.name].present
         THEN Create(source.name, source.min)
         ELSE IF check_scaling_needs(source.name)
              THEN Scale(source.name, get_current_replicas(source.name) + 1)
              ELSE NoAction
    ELSE IF current_sources[source.name].present
         THEN Delete(source.name)
         ELSE NoAction

\* the mutant of the delete that removes every workload labelled app=lfr
ExecutedDeleteCollection(call) ==
    IF call.kind = "Delete" THEN [n \in Names |-> Absent]
    ELSE IF call.kind \in {"Create", "Scale"}
         THEN [cluster EXCEPT ![call.name] = Workload(call.replicas)]
         ELSE cluster

\* the cluster after a successful create / patch / delete
Executed(call) ==
    IF call.kind = "Delete" THEN [cluster EXCEPT ![call.name] = Absent]
    ELSE IF call.kind \in {"Create", "Scale"}
         THEN [cluster EXCEPT ![call.name] = Workload(call.replicas)]
         ELSE cluster

\* the names label_selector='app=lfr' lists, in the API's order
RECURSIVE ListedFrom(_)
ListedFrom(i) ==
    IF i > Len(ListOrder) THEN <<>>
    ELSE IF cluster[ListOrder[i]].present
         THEN <<ListOrder[i]>> \o ListedFrom(i + 1)
         ELSE ListedFrom(i + 1)

Listed == ListedFrom(1)

\* the values check_scaling_needs may take in one pass; a workload at
\* MaxReplicas is not scaled further in the model
Signals ==
    {s \in [Names -> BOOLEAN] :
        \A n \in Names : s[n] => (cluster[n].present /\ cluster[n].replicas < MaxReplicas)}

\* ------------------------------------------------------------------- state
Init ==
    /\ pc = "reload"
    /\ config \in LogSourceLists
    /\ cluster \in [Names -> Workloads]
    /\ current_sources = NoSnapshot
    /\ signal = NoSignal
    /\ idx = 1
    /\ actions = <<>>
    /\ error = "none"
    /\ deployments = <<>>
    /\ hidx = 1
    /\ health_status = NoHealth
    /\ ridx = 1
    /\ rec = NoEpisode
    /\ episodes = [n \in Names |-> 0]
    /\ evalIn = NoEval
    /\ evalOut = NoVerdict
    /\ waits = <<>>
    /\ started = NoneStarted
    /\ MonitorStart

\* the except clause of the control loop is entered: the rest of the cycle is skipped
Raise(what) ==
    /\ pc' = "backoff"
    /\ error' = what

\* the locals of one iteration of "while True" go out of scope
CycleLocalsDropped ==
    /\ current_sources' = NoSnapshot
    /\ signal' = NoSignal
    /\ idx' = 1
    /\ actions' = <<>>
    /\ deployments' = <<>>
    /\ hidx' = 1
    /\ health_status' = NoHealth
    /\ ridx' = 1
    /\ rec' = NoEpisode
    /\ started' = NoneStarted

\* the mutant of the reload that assigns the empty result of a failed load
ConfigAfterFailedLoadCleared == <<>>

\* self.config when _load_config raised: the assignment of line 308 is not made
ConfigAfterFailedLoad == config

\* self.config = self._load_config(self.config_path), first statement of a cycle
Reload ==
    /\ pc = "reload"
    /\ CycleLocalsDropped
    /\ waits' = <<>>
    /\ \/ \E f \in LogSourceLists :
            /\ config' = f
            /\ pc' = "list"
            /\ error' = "none"
       \/ \E f \in LoadFailures :
            /\ config' = ConfigAfterFailedLoad
            /\ Raise("config")
    /\ UNCHANGED <<cluster, episodes, evalIn, evalOut, dockerVars>>

\* current_deployments = list_namespaced_deployment(...); current_sources = {...}
ListDeployments ==
    /\ pc = "list"
    /\ \/ /\ current_sources' = cluster
          /\ signal' \in Signals
          /\ pc' = IF Len(config) = 0 THEN "monitor" ELSE "reconcile"
          /\ UNCHANGED error
       \/ /\ Raise("list")
          /\ UNCHANGED <<current_sources, signal>>
    /\ UNCHANGED <<config, cluster, idx, actions, deployments, hidx, health_status,
                   ridx, rec, episodes, evalIn, evalOut, dockerVars, waits, started>>

\* one iteration of "for source in self.config['log_sources']", with the
\* create / scale / delete call it makes
ReconcileSource ==
    /\ pc = "reconcile"
    /\ idx <= Len(config)
    /\ LET call == ReconcileCall(config[idx])
       IN  /\ actions' = IF call.kind = "None" THEN actions ELSE Append(actions, call)
           /\ \/ /\ cluster' = Executed(call)
                 /\ idx' = idx + 1
                 /\ pc' = IF idx = Len(config) THEN "monitor" ELSE "reconcile"
                 /\ UNCHANGED error
              \/ /\ call.kind # "None"
                 /\ Raise("action")
                 /\ UNCHANGED <<cluster, idx>>
    /\ UNCHANGED <<config, current_sources, signal, deployments, hidx, health_status,
                   ridx, rec, episodes, evalIn, evalOut, dockerVars, waits, started>>

\* one pass of the loop body of monitor_lfr_health over one deployment
EvaluateOne(replicas, available, list, pods) ==
    LET ep == CheckEndpointHealth(list, pods)
    IN  [evaluated |-> TRUE,
         deployment_healthy |-> deployment_healthy(available, replicas),
         endpoint_healthy |-> ep.result,
         verdict |-> HealthVerdict(replicas, available, ep.result),
         raised |-> ep.raised]

\* what the loop body can compute for a workload of the given spec.replicas,
\* over the availabilities, listing outcomes and pods the cluster may show
Evaluations(replicas) ==
    {EvaluateOne(replicas, available, list, pods) :
        available \in Availabilities, list \in ApiOutcomes, pods \in PodLists}

\* what _check_endpoint_health can return, over the listing outcomes and pods
EndpointChecks ==
    {CheckEndpointHealth(list, pods) : list \in ApiOutcomes, pods \in PodLists}

\* the locals of the reconciliation pass (the snapshot, the signal, the calls
\* made) are not read after its loop; they are kept while the verdicts are
\* computed and dropped when the recovery begins
PassLocalsAfter(next) ==
    IF next = "evaluate"
    THEN UNCHANGED <<current_sources, signal, actions>>
    ELSE /\ current_sources' = NoSnapshot
         /\ signal' = NoSignal
         /\ actions' = <<>>

\* the mutant of the listing that takes the names of the desired list
MonitoredNamesDesired == [i \in 1..Len(config) |-> config[i].name]

\* the names monitor_lfr_health goes through: the deployments the cluster
\* lists at that moment
MonitoredNames == Listed

\* deployments = list_namespaced_deployment(...) of monitor_lfr_health; an
\* ApiException returns the empty health_status
MonitorList ==
    /\ pc = "monitor"
    /\ \/ /\ deployments' = MonitoredNames
          /\ pc' = IF MonitoredNames = <<>> THEN "recover" ELSE "evaluate"
       \/ /\ deployments' = <<>>
          /\ pc' = "recover"
    /\ PassLocalsAfter(pc')
    /\ hidx' = 1
    /\ ridx' = 1
    /\ health_status' = NoHealth
    /\ UNCHANGED <<config, cluster, idx, error, rec, episodes, evalIn, evalOut, dockerVars,
                   waits, started>>

\* the mutant of monitor_lfr_health that hands each verdict to the recovery
\* as soon as it is computed
AfterEvaluationRecoverAtOnce(i, n) == "recover"

\* after item i of the n deployments: the next item, or the return of
\* health_status to the control loop
AfterEvaluation(i, n) == IF i = n THEN "recover" ELSE "evaluate"

\* one iteration of "for deployment in deployments.items"
EvaluateHealth ==
    /\ pc = "evaluate"
    /\ hidx <= Len(deployments)
    /\ \E v \in Evaluations(cluster[deployments[hidx]].replicas) :
          LET source_name == deployments[hidx]
          IN  IF v.raised
              THEN /\ Raise("health")
                   /\ UNCHANGED <<health_status, hidx, current_sources, signal, actions>>
              ELSE /\ health_status' = [health_status EXCEPT ![source_name] =
                                           IF v.verdict THEN "healthy" ELSE "unhealthy"]
                   /\ hidx' = hidx + 1
                   /\ pc' = AfterEvaluation(hidx, Len(deployments))
                   /\ PassLocalsAfter(pc')
                   /\ UNCHANGED error
    /\ UNCHANGED <<config, cluster, idx, deployments,
                   ridx, rec, episodes, evalIn, evalOut, dockerVars, waits, started>>

\* a fresh call of _handle_unhealthy_deployment(source_name)
NewEpisode(source_name) ==
    [source |-> source_name, retry_count |-> 0, restarts |-> 0, unhealthy |-> 0,
     errors |-> 0, healthyAt |-> 0, trail |-> <<>>, sleeps |-> <<>>,
     workload |-> "none", outcome |-> "running"]

\* the mutant of the call that starts the recovery without waiting for it
HandleUnhealthySpawn(source_name) ==
    /\ rec' = NewEpisode(source_name)
    /\ episodes' = [episodes EXCEPT ![source_name] = @ + 1]
    /\ started' = [started EXCEPT ![source_name] = @ + 1]
    /\ pc' = "recover"
    /\ ridx' = ridx + 1

\* self._handle_unhealthy_deployment(source_name): the loop waits for its return
HandleUnhealthyCall(source_name) ==
    /\ rec' = NewEpisode(source_name)
    /\ episodes' = [episodes EXCEPT ![source_name] = @ + 1]
    /\ started' = [started EXCEPT ![source_name] = @ + 1]
    /\ pc' = "attempt"
    /\ ridx' = ridx

\* the mutant of the test that recovers every evaluated source
NeedsRecoveryAlways(verdict) == verdict # "none"

\* "if not is_healthy"
NeedsRecovery(verdict) == verdict = "unhealthy"

\* one iteration of "for source_name, is_healthy in health_status.items()"
RecoverNext ==
    /\ pc = "recover"
    /\ ridx <= Len(deployments)
    /\ IF NeedsRecovery(health_status[deployments[ridx]])
       THEN HandleUnhealthyCall(deployments[ridx])
       ELSE /\ ridx' = ridx + 1
            /\ UNCHANGED <<pc, rec, episodes, started>>
    /\ UNCHANGED <<config, cluster, current_sources, signal, idx, actions, error,
                   deployments, hidx, health_status, evalIn, evalOut, dockerVars, waits>>

\* the mutant of the loop test that allows one attempt more
RetryAllowedOffByOne(retry_count) == retry_count <= max_retries

\* "while retry_count < max_retries"
RetryAllowed(retry_count) == retry_count < max_retries

\* _handle_unhealthy_deployment returns to the loop over health_status, its
\* record being r
Return(r, outcome) ==
    /\ rec' = [r EXCEPT !.outcome = outcome]
    /\ episodes' = [episodes EXCEPT ![rec.source] = @ - 1]
    /\ pc' = "recover"
    /\ ridx' = ridx + 1

\* the mutant of the attempt without its except clause
ApiExceptionEscapes == FALSE

\* "except ApiException as e" of the attempt: the error is logged, not raised
ApiExceptionCaught == TRUE

\* the start of one attempt: retry_count += 1, read the deployment, patch
\* its restartedAt annotation; an ApiException of either is caught and logged
RecoveryAttempt ==
    /\ pc = "attempt"
    /\ LET n == rec.retry_count + 1
       IN \/ /\ rec' = [rec EXCEPT !.retry_count = n, !.trail = Append(@, n),
                                   !.restarts = @ + 1, !.workload = "none"]
             /\ pc' = "settle"
             /\ UNCHANGED <<error, episodes>>
          \/ IF ApiExceptionCaught
             THEN /\ rec' = [rec EXCEPT !.retry_count = n, !.trail = Append(@, n),
                                        !.errors = @ + 1, !.workload = "none"]
                  /\ pc' = "interwait"
                  /\ UNCHANGED <<error, episodes>>
             ELSE /\ rec' = [rec EXCEPT !.retry_count = n, !.trail = Append(@, n),
                                        !.errors = @ + 1, !.outcome = "raised"]
                  /\ episodes' = [episodes EXCEPT ![rec.source] = @ - 1]
                  /\ Raise("recovery")
    /\ UNCHANGED <<config, cluster, current_sources, signal, idx, actions,
                   deployments, hidx, health_status, ridx, evalIn, evalOut, dockerVars, waits, started>>

\* the mutant of the re-check that does not return on success
RecheckReturnsNever(healthy) == FALSE

\* "if self._check_endpoint_health(source_name): ... return"
RecheckReturns(healthy) == healthy

\* time.sleep(10), then the re-check of the endpoints; available is
\* status.available_replicas of the workload at that time, which the
\* re-check does not read
SettleRecheck ==
    /\ pc = "settle"
    /\ \E available \in Availabilities, ep \in EndpointChecks :
          LET seen == [rec EXCEPT !.healthyAt = IF ep.result /\ @ = 0
                                                THEN rec.retry_count ELSE @,
                                  !.unhealthy = IF ep.result THEN @ ELSE @ + 1,
                                  !.sleeps = Append(@, settle_delay),
                                  !.workload =
                                      IF ~ep.result THEN "none"
                                      ELSE IF deployment_healthy(available,
                                                   cluster[rec.source].replicas)
                                           THEN "ok" ELSE "mismatch"]
          IN  IF ep.raised
              THEN /\ Raise("health")
                   /\ rec' = [rec EXCEPT !.outcome = "raised"]
                   /\ episodes' = [episodes EXCEPT ![rec.source] = @ - 1]
                   /\ UNCHANGED ridx
              ELSE IF RecheckReturns(ep.result)
              THEN /\ Return(seen, "Healthy")
                   /\ UNCHANGED error
              ELSE /\ rec' = seen
                   /\ pc' = "interwait"
                   /\ UNCHANGED <<episodes, ridx, error>>
    /\ UNCHANGED <<config, cluster, current_sources, signal, idx, actions,
                   deployments, hidx, health_status, evalIn, evalOut, dockerVars, waits, started>>

\* the mutant of the end of the loop that raises once the budget is used up
ExhaustedRaises ==
    /\ rec' = [rec EXCEPT !.outcome = "Failed", !.sleeps = Append(@, retry_delay)]
    /\ episodes' = [episodes EXCEPT ![rec.source] = @ - 1]
    /\ Raise("recovery")
    /\ ridx' = ridx

\* the loop test fails: the final log of line 299, and the return
Exhausted ==
    /\ Return([rec EXCEPT !.sleeps = Append(@, retry_delay)], "Failed")
    /\ error' = error

\* time.sleep(5), then the loop test: another attempt, or the final log and return
InterAttemptWait ==
    /\ pc = "interwait"
    /\ IF RetryAllowed(rec.retry_count)
       THEN /\ pc' = "attempt"
            /\ rec' = [rec EXCEPT !.sleeps = Append(@, retry_delay)]
            /\ UNCHANGED <<episodes, ridx, error>>
       ELSE Exhausted
    /\ UNCHANGED <<config, cluster, current_sources, signal, idx, actions,
                   deployments, hidx, health_status, evalIn, evalOut, dockerVars, waits, started>>

\* the loop over health_status is exhausted: the cycle reaches time.sleep(30)
CycleDone ==
    /\ pc = "recover"
    /\ ridx > Len(deployments)
    /\ pc' = "sleep"
    /\ UNCHANGED <<config, cluster, current_sources, signal, idx, actions, error,
                   deployments, hidx, health_status, ridx, rec, episodes, evalIn, evalOut, dockerVars, waits, started>>

\* time.sleep(30): the next cycle starts
Sleep ==
    /\ pc = "sleep"
    /\ waits' = Append(waits, cycle_interval)
    /\ pc' = "reload"
    /\ CycleLocalsDropped
    /\ UNCHANGED <<config, cluster, error, episodes, evalIn, evalOut, dockerVars>>

\* the mutant of the except clause that falls through to the nominal sleep
BackoffThenInterval == waits \o <<backoff_interval, cycle_interval>>

\* the sleeps of the except clause: time.sleep(60) only
BackoffSleeps == Append(waits, backoff_interval)

\* the mutant of the except clause that leaves the loop
AfterBackoffExit == "exit"

\* where the except clause continues: the next iteration of "while True"
AfterBackoff == "reload"

\* the except clause of the control loop: log, time.sleep(60), next cycle
Backoff ==
    /\ pc = "backoff"
    /\ waits' = BackoffSleeps
    /\ pc' = AfterBackoff
    /\ CycleLocalsDropped
    /\ UNCHANGED <<config, cluster, error, episodes, evalIn, evalOut, dockerVars>>

Next ==
    \/ Reload
    \/ ListDeployments
    \/ ReconcileSource
    \/ MonitorList
    \/ EvaluateHealth
    \/ RecoverNext
    \/ RecoveryAttempt
    \/ SettleRecheck
    \/ InterAttemptWait
    \/ CycleDone
    \/ Sleep
    \/ Backoff

Spec == Init /\ [][Next]_vars

\* the control loop is one sequential thread whose calls and sleeps all
\* return: a step that can be taken is taken
SpecLive == Init /\ [][Next]_vars /\ WF_vars(Next)

\* ------------------------------------------- the health evaluation alone
\* the inputs of one evaluation: spec.replicas, status.available_replicas,
\* the outcome of listing the pods, and the pods
EvalInputs ==
    [replicas : 0..MaxReplicas, available : Availabilities,
     list : ApiOutcomes, pods : PodLists]

InitHealth ==
    /\ pc = "reload"
    /\ config = <<>>
    /\ cluster = NoSnapshot
    /\ current_sources = NoSnapshot
    /\ signal = NoSignal
    /\ idx = 1
    /\ actions = <<>>
    /\ error = "none"
    /\ deployments = <<>>
    /\ hidx = 1
    /\ health_status = NoHealth
    /\ ridx = 1
    /\ rec = NoEpisode
    /\ episodes = [n \in Names |-> 0]
    /\ evalIn \in EvalInputs
    /\ evalOut = NoVerdict
    /\ waits = <<>>
    /\ started = NoneStarted
    /\ MonitorStart

\* the evaluation of the inputs at hand
Evaluate ==
    /\ ~evalOut.evaluated
    /\ evalOut' = EvaluateOne(evalIn.replicas, evalIn.available, evalIn.list, evalIn.pods)
    /\ UNCHANGED <<evalIn, loopVars, dockerVars>>

NextHealth == Evaluate

SpecHealth == InitHealth /\ [][NextHealth]_vars

\* ------------------------------------------------------ the Docker monitor
\* check_health: True on status 200, False on another status or an exception
check_health(response) == response = "200"

\* restart_instance: True when docker restart succeeded, False on
\* CalledProcessError
restart_instance(result) == result = "ok"

\* the histories of one retry_restart call, one entry per item of its list
NoTries(list) == [i \in 1..Len(list) |-> 0]
NoneYet(list) == [i \in 1..Len(list) |-> FALSE]

\* how often an instance is in a list
Occurrences(list, n) == Cardinality({i \in 1..Len(list) : list[i] = n})

\* one iteration of "for lfr in lfr_instances"
CheckHealth ==
    /\ mpc = "check"
    /\ lidx <= Len(lfr_instances)
    /\ \E response \in Responses :
          LET lfr == lfr_instances[lidx]
              healthy == check_health(response)
          IN  /\ responses' = [responses EXCEPT ![lfr] = response]
              /\ unhealthy_instances' = IF ~healthy
                                        THEN Append(unhealthy_instances, lfr)
                                        ELSE unhealthy_instances
    /\ lidx' = lidx + 1
    /\ mpc' = IF lidx = Len(lfr_instances) THEN "handoff" ELSE "check"
    /\ UNCHANGED <<uidx, attempt, handed, tries, restarted, failure_logged>>
    /\ UNCHANGED <<loopVars, evalIn, evalOut>>

\* "if unhealthy_instances: retry_restart(unhealthy_instances)"
HandOff ==
    /\ mpc = "handoff"
    /\ IF unhealthy_instances # <<>>
       THEN /\ mpc' = "restart"
            /\ handed' = [n \in InstanceNames |->
                             handed[n] + Occurrences(unhealthy_instances, n)]
            /\ tries' = NoTries(unhealthy_instances)
            /\ restarted' = NoneYet(unhealthy_instances)
            /\ failure_logged' = NoneYet(unhealthy_instances)
       ELSE /\ mpc' = "sleep"
            /\ UNCHANGED <<handed, tries, restarted, failure_logged>>
    /\ uidx' = 1
    /\ attempt' = 0
    /\ UNCHANGED <<lidx, unhealthy_instances, responses>>
    /\ UNCHANGED <<loopVars, evalIn, evalOut>>

\* the mutant of the inner loop without its break
BreaksLoopNever(success) == FALSE

\* "if success: ... break"
BreaksLoop(success) == success

\* one iteration of "for attempt in range(max_retries)" for the current item,
\* with the else clause of the loop and the step to the next item when it
\* was the last iteration
RestartAttempt ==
    /\ mpc = "restart"
    /\ uidx <= Len(unhealthy_instances)
    /\ \E result \in SubprocessOutcomes :
          LET success == restart_instance(result)
              made == attempt + 1
              broken == BreaksLoop(success)
              over == broken \/ made = retry_restart_max_retries
          IN  /\ tries' = [tries EXCEPT ![uidx] = @ + 1]
              /\ restarted' = [restarted EXCEPT ![uidx] = @ \/ success]
              /\ failure_logged' = [failure_logged EXCEPT ![uidx] = over /\ ~broken]
              /\ attempt' = IF over THEN 0 ELSE made
              /\ uidx' = IF over THEN uidx + 1 ELSE uidx
              /\ mpc' = IF over /\ uidx = Len(unhealthy_instances)
                        THEN "clear" ELSE "restart"
    /\ UNCHANGED <<lidx, unhealthy_instances, responses, handed>>
    /\ UNCHANGED <<loopVars, evalIn, evalOut>>

\* the mutant of the monitor that keeps the list after the restarts
ListAfterRestartsKept == unhealthy_instances

\* unhealthy_instances.clear()
ListAfterRestarts == <<>>

\* retry_restart has returned: the list is cleared
ClearList ==
    /\ mpc = "clear"
    /\ unhealthy_instances' = ListAfterRestarts
    /\ mpc' = "sleep"
    /\ UNCHANGED <<lidx, uidx, attempt, responses, handed, tries, restarted,
                   failure_logged>>
    /\ UNCHANGED <<loopVars, evalIn, evalOut>>

\* time.sleep(60), then the next iteration of "while True"
MonitorSleep ==
    /\ mpc = "sleep"
    /\ mpc' = "check"
    /\ lidx' = 1
    /\ uidx' = 1
    /\ attempt' = 0
    /\ responses' = NoResponses
    /\ handed' = NoneHanded
    /\ tries' = <<>>
    /\ restarted' = <<>>
    /\ failure_logged' = <<>>
    /\ UNCHANGED unhealthy_instances
    /\ UNCHANGED <<loopVars, evalIn, evalOut>>

\* the state of the control loop while the Docker monitor is looked at
LoopIdle ==
    /\ pc = "reload"
    /\ config = <<>>
    /\ cluster = NoSnapshot
    /\ current_sources = NoSnapshot
    /\ signal = NoSignal
    /\ idx = 1
    /\ actions = <<>>
    /\ error = "none"
    /\ deployments = <<>>
    /\ hidx = 1
    /\ health_status = NoHealth
    /\ ridx = 1
    /\ rec = NoEpisode
    /\ episodes = [n \in Names |-> 0]
    /\ evalIn = NoEval
    /\ evalOut = NoVerdict
    /\ waits = <<>>
    /\ started = NoneStarted

InitDocker ==
    /\ LoopIdle
    /\ MonitorStart

NextDocker ==
    \/ CheckHealth
    \/ HandOff
    \/ RestartAttempt
    \/ ClearList
    \/ MonitorSleep

SpecDocker == InitDocker /\ [][NextDocker]_vars

\* retry_restart alone, called with any list of instances
InitRetry ==
    /\ LoopIdle
    /\ unhealthy_instances \in InstanceLists
    /\ mpc = IF unhealthy_instances = <<>> THEN "clear" ELSE "restart"
    /\ lidx = 1
    /\ uidx = 1
    /\ attempt = 0
    /\ responses = NoResponses
    /\ handed = [n \in InstanceNames |-> Occurrences(unhealthy_instances, n)]
    /\ tries = NoTries(unhealthy_instances)
    /\ restarted = NoneYet(unhealthy_instances)
    /\ failure_logged = NoneYet(unhealthy_instances)

NextRetry == RestartAttempt

SpecRetry == InitRetry /\ [][NextRetry]_vars

\* ------------------------------------------------------------------ claims
\* the calls of the pass that name a source
ActionsFor(name) == SelectSeq(actions, LAMBDA a : a.name = name)

\* the action the rule table gives a desired source against the observed snapshot
RuleTable(source) ==
    CASE source.enabled /\ ~current_sources[source.name].present ->
            <<Create(source.name, source.min)>>
      [] source.enabled /\ current_sources[source.name].present /\ signal[source.name] ->
            <<Scale(source.name, current_sources[source.name].replicas + 1)>>
      [] ~source.enabled /\ current_sources[source.name].present ->
            <<Delete(source.name)>>
      [] OTHER -> <<>>

\* the reconciliation pass is over: its loop completed, or a call raised out of it
PassCompleted == pc = "monitor"
PassAborted == pc = "backoff" /\ error = "action"

\* C1: when a reconciliation pass is over, every source of the desired list
\* has been given exactly the action of the rule table (Create with
\* minReplicas, Scale to currentReplicas + 1, Delete, or nothing), and so at
\* most one action.
C1_RuleTable ==
    (PassCompleted \/ PassAborted) =>
        \A i \in 1..Len(config) : ActionsFor(config[i].name) = RuleTable(config[i])

\* the observed snapshot already matches the desired state
Matches ==
    \A i \in 1..Len(config) :
        IF config[i].enabled
        THEN current_sources[config[i].name].present /\ ~signal[config[i].name]
        ELSE ~current_sources[config[i].name].present

\* C2: throughout a reconciliation pass whose observed snapshot matches the
\* desired state, no action has been emitted and the workloads and their
\* replica counts are those of the snapshot; in every cycle.
C2_Idempotent ==
    (pc \in {"reconcile", "monitor"} /\ Matches) =>
        (actions = <<>> /\ cluster = current_sources)

\* C2 witness: a completed pass over an enabled present source and a disabled
\* absent one, the state matching.
C2_Witness ==
    /\ pc = "monitor"
    /\ Matches
    /\ Len(config) = 2
    /\ config[1].enabled
    /\ ~config[2].enabled
    /\ idx = 3

\* C3: the verdict of an evaluated workload is healthy exactly when
\* availableReplicas equals desiredReplicas (a count that is not reported
\* equals none) and the endpoint check is healthy.
C3_Verdict ==
    evalOut.evaluated =>
        (evalOut.verdict <=>
            (evalIn.available = evalIn.replicas /\ evalOut.endpoint_healthy))

\* C3 witness: 3 desired, 2 available, every member probe healthy, verdict
\* unhealthy (scenario D).
C3_Witness ==
    /\ evalOut.evaluated
    /\ evalIn.replicas = 3
    /\ evalIn.available = 2
    /\ evalIn.list = "ok"
    /\ evalIn.pods = <<"ok", "ok">>
    /\ evalOut.endpoint_healthy
    /\ ~evalOut.verdict

\* C4: the endpoint check is healthy exactly when the members were listed
\* and every member with an address answered 200; members without an
\* address do not count.
C4_Endpoint ==
    evalOut.evaluated =>
        (evalOut.endpoint_healthy <=>
            (evalIn.list = "ok"
             /\ \A i \in 1..Len(evalIn.pods) : evalIn.pods[i] \in {"noip", "ok"}))

\* C4 witness: a source whose members all lack an address is endpoint-healthy.
C4_Witness ==
    /\ evalOut.evaluated
    /\ evalIn.pods = <<"noip", "noip">>
    /\ evalOut.endpoint_healthy

\* C5: when listing the members raises, or the probe of a member with an
\* address raises, the endpoint check returns unhealthy, and no exception
\* ever leaves the endpoint check.
C5_FailClosed ==
    evalOut.evaluated =>
        /\ ~evalOut.raised
        /\ (evalIn.list = "ApiException"
            \/ \E i \in 1..Len(evalIn.pods) : evalIn.pods[i] = "err")
              => ~evalOut.endpoint_healthy

\* C5 witness: the probe of the second member raises after a healthy first one.
C5_Witness ==
    /\ evalOut.evaluated
    /\ evalIn.list = "ok"
    /\ evalIn.pods = <<"ok", "err">>
    /\ ~evalOut.endpoint_healthy
    /\ ~evalOut.raised

\* a call of _handle_unhealthy_deployment is in progress
InEpisode == pc \in {"attempt", "settle", "interwait"}

\* the call has returned
EpisodeEnded == rec.outcome \in {"Healthy", "Failed"}

\* C6: an episode never makes more than max_retries attempts, can always
\* take its next step while it runs, and has ended exactly when its outcome
\* is Healthy (the last re-check succeeded) or Failed (the budget is used up).
C6_Terminates ==
    /\ rec.retry_count <= max_retries
    /\ Len(rec.trail) <= max_retries
    /\ (pc = "attempt" => rec.retry_count < max_retries)
    /\ (InEpisode <=> rec.outcome = "running")
    /\ (InEpisode => ENABLED (RecoveryAttempt \/ SettleRecheck \/ InterAttemptWait))
    /\ rec.outcome \in {"none", "running", "Healthy", "Failed"}
    /\ (rec.outcome = "Healthy" => rec.healthyAt = rec.retry_count)
    /\ (rec.outcome = "Failed" => (rec.healthyAt = 0 /\ rec.retry_count = max_retries))

\* C6 witness: an episode with a cluster-API error and an unhealthy re-check
\* that ended in Failed.
C6_Witness ==
    /\ rec.outcome = "Failed"
    /\ rec.errors > 0
    /\ rec.unhealthy > 0

\* C7 as stated: an episode whose re-checks were all unhealthy ends in
\* Failed after exactly max_retries restart actions.
C7_ExactlyMaxRestarts ==
    (EpisodeEnded /\ rec.healthyAt = 0) =>
        (rec.outcome = "Failed" /\ rec.restarts = max_retries)

\* C7 amended: an episode whose re-checks were all unhealthy ends in Failed
\* after max_retries attempts, of which those that raised a cluster-API
\* error issued no restart action: exactly max_retries restart actions when
\* none raised; and no episode issues more than max_retries restart actions.
C7_Amended ==
    /\ rec.restarts <= max_retries
    /\ (EpisodeEnded /\ rec.healthyAt = 0) =>
          /\ rec.outcome = "Failed"
          /\ rec.retry_count = max_retries
          /\ rec.restarts = max_retries - rec.errors

\* C7 witness: three unhealthy re-checks, three restart actions, Failed.
C7_Witness ==
    /\ rec.outcome = "Failed"
    /\ rec.unhealthy = max_retries
    /\ rec.restarts = max_retries
    /\ rec.errors = 0

\* C8: once the re-check after attempt k is healthy, the re-checks after
\* attempts 1..k-1 having been unhealthy, the episode is over with outcome
\* Healthy, has passed through attempts 1, ..., k in order and has issued
\* exactly k restart actions.
C8_StopsAtFirstHealthy ==
    (rec.healthyAt > 0 /\ rec.unhealthy = rec.healthyAt - 1) =>
        /\ rec.outcome = "Healthy"
        /\ ~InEpisode
        /\ rec.retry_count = rec.healthyAt
        /\ rec.trail = [i \in 1..rec.healthyAt |-> i]
        /\ rec.restarts = rec.healthyAt

\* C8 witness: unhealthy after attempt 1, healthy after attempt 2 (scenario E).
C8_Witness ==
    /\ rec.healthyAt = 2
    /\ rec.unhealthy = 1
    /\ rec.outcome = "Healthy"
    /\ rec.trail = <<1, 2>>

\* C9: no source ever has more than one episode in progress, and the
\* episode in progress is the one the loop is waiting for.
C9_OneEpisodePerSource ==
    \A n \in Names :
        /\ episodes[n] <= 1
        /\ (episodes[n] = 1 <=> (InEpisode /\ rec.source = n))

\* C9 witness: the second attempt of an episode for one source while another
\* unhealthy source waits for its own.
C9_Witness ==
    /\ pc = "settle"
    /\ rec.source = "a"
    /\ rec.retry_count = 2
    /\ episodes["a"] = 1
    /\ health_status["b"] = "unhealthy"

\* C10: a Create, Scale or Delete call that raised does not end the cycle.
C10_FailedActionAbortsOnlyThatAction ==
    error = "action" => pc # "backoff"

\* C11: a cycle is followed by exactly one wait before the next cycle begins:
\* cycle_interval (30) when nothing raised into the control loop,
\* backoff_interval (60) alone when something did; no wait is taken inside
\* the cycle by the control loop itself.
C11_OneWait ==
    [][/\ (pc' = "reload") =>
              (waits' = IF error' = "none" THEN <<cycle_interval>>
                                           ELSE <<backoff_interval>>)
       /\ (pc' # "reload") => (waits' = <<>>)]_vars

\* C11 witness: the next cycle is about to begin after a cycle in which a
\* create/scale/delete call raised, the only wait having been the backoff.
C11_Witness ==
    /\ pc = "reload"
    /\ error = "action"
    /\ waits = <<backoff_interval>>

\* C12: the control loop reaches the start of a cycle again and again, and
\* leaves it again and again: after any cycle a next cycle begins.
C12_NextCycleBegins ==
    /\ []<>(pc = "reload")
    /\ []<>(pc # "reload")

\* C12 witness: the next cycle is about to begin after a cycle whose
\* listing of the workloads raised.
C12_Witness ==
    /\ pc = "reload"
    /\ error = "list"
    /\ waits = <<backoff_interval>>

\* every listed deployment has its verdict
AllEvaluated ==
    /\ hidx = Len(deployments) + 1
    /\ \A i \in 1..Len(deployments) : health_status[deployments[i]] # "none"

\* C13: in every cycle, no health evaluation has begun while a source is
\* still to be reconciled, and no recovery has begun (no restart issued)
\* while a listed deployment is still to be evaluated.
C13_Ordering ==
    /\ (pc = "reconcile") => (health_status = NoHealth /\ hidx = 1 /\ rec = NoEpisode)
    /\ (pc = "evaluate" \/ health_status # NoHealth) => idx = Len(config) + 1
    /\ (pc = "evaluate") => rec = NoEpisode
    /\ (InEpisode \/ rec.restarts > 0) => (idx = Len(config) + 1 /\ AllEvaluated)

\* C13 witness: the first restart of the cycle has been issued, both desired
\* sources having been reconciled and both deployments evaluated.
C13_Witness ==
    /\ pc = "settle"
    /\ Len(config) = 2
    /\ idx = 3
    /\ Len(deployments) = 2
    /\ hidx = 3
    /\ rec.source = deployments[1]
    /\ rec.restarts = 1

\* C14: an episode ends in Healthy only if the workload condition
\* (availableReplicas = desiredReplicas) held at the re-check, beside the
\* endpoint condition.
C14_HealthyNeedsFullVerdict ==
    rec.outcome = "Healthy" => rec.workload = "ok"

\* C15: an attempt whose read or patch raised a cluster-API error is used up
\* (every attempt is a restart or an error); the error does not reach the
\* control loop, the episode goes on with the next attempt while the budget
\* lasts and ends in Failed when it is used up.
C15_ErrorConsumesAttempt ==
    /\ rec.retry_count = rec.restarts + rec.errors
    /\ rec.errors > 0 =>
          /\ error = "none"
          /\ pc # "backoff"
          /\ rec.outcome \in {"running", "Healthy", "Failed"}
          /\ (rec.outcome = "Failed" => rec.retry_count = max_retries)
    /\ (pc = "interwait" /\ rec.errors > 0) =>
          IF rec.retry_count < max_retries
          THEN /\ ENABLED (InterAttemptWait /\ pc' = "attempt")
               /\ ~ENABLED (InterAttemptWait /\ pc' # "attempt")
          ELSE /\ ENABLED (InterAttemptWait /\ rec'.outcome = "Failed" /\ pc' = "recover")
               /\ ~ENABLED (InterAttemptWait /\ pc' # "recover")

\* C15 witness: every attempt of an episode raised a cluster-API error, the
\* episode ended in Failed and the cycle has reached its nominal sleep.
C15_Witness ==
    /\ pc = "sleep"
    /\ rec.errors = max_retries
    /\ rec.outcome = "Failed"
    /\ error = "none"

\* C16: an episode that ended in Failed leaves the cycle running: nothing
\* was raised, and the loop over the verdicts has moved past its source; an episode exists only for a source whose verdict of this cycle is
\* unhealthy, and it starts with no attempt made.
C16_ExhaustedGoesOn ==
    /\ rec.outcome = "Failed" =>
          /\ error = "none"
          /\ pc \in {"recover", "sleep"}
          /\ \E i \in 1..(ridx - 1) : deployments[i] = rec.source
    /\ rec.outcome # "none" => health_status[rec.source] = "unhealthy"
    /\ (pc = "attempt" /\ Len(rec.trail) = 0) => rec = NewEpisode(rec.source)
    /\ (rec.outcome = "running" /\ pc = "attempt") => rec.retry_count < max_retries

\* C16 witness: the episode of the first source ended in Failed and the loop
\* stands before the second source, which is unhealthy too.
C16_Witness ==
    /\ pc = "recover"
    /\ rec.outcome = "Failed"
    /\ ridx = 2
    /\ Len(deployments) = 2
    /\ health_status[deployments[2]] = "unhealthy"

\* C17: in a cycle no source gets more than one episode, a source gets one
\* only if its verdict of this cycle is unhealthy, and when the cycle
\* reaches its nominal sleep exactly the unhealthy sources have got one.
C17_RecoversExactlyUnhealthy ==
    /\ \A n \in Names :
          /\ started[n] <= 1
          /\ (started[n] = 1 => health_status[n] = "unhealthy")
    /\ rec.restarts > 0 => health_status[rec.source] = "unhealthy"
    /\ pc = "sleep" =>
          \A n \in Names : started[n] = 1 <=> health_status[n] = "unhealthy"

\* C17 witness: a cycle ends in which one source was healthy and got no
\* episode and the other was unhealthy and got one.
C17_Witness ==
    /\ pc = "sleep"
    /\ health_status["a"] = "healthy"
    /\ health_status["b"] = "unhealthy"
    /\ started["a"] = 0
    /\ started["b"] = 1

\* the source is named in the desired list
InDesired(n) == \E i \in 1..Len(config) : config[i].name = n

\* C18: no step of any cycle changes a workload that is on the cluster but
\* not in the desired list, and no action of the pass names it.
C18_OrphansUntouched ==
    [][\A n \in Names :
          (cluster[n].present /\ ~InDesired(n)) =>
              /\ cluster'[n] = cluster[n]
              /\ \A i \in 1..Len(actions') : actions'[i].name # n]_vars

\* C18 witness: a pass that deleted the only desired source is over, the
\* orphaned workload being as the snapshot showed it.
C18_Witness ==
    /\ pc = "monitor"
    /\ Len(config) = 1
    /\ config[1].name = "a"
    /\ actions = <<Delete("a")>>
    /\ current_sources["b"].present
    /\ cluster["b"] = current_sources["b"]

\* how often a delay occurs among the sleeps of the episode
Slept(delay) == Cardinality({i \in 1..Len(rec.sleeps) : rec.sleeps[i] = delay})

\* C19: an ended episode has taken one settle delay per restart action and
\* one inter-attempt delay between each two attempts, none after the last.
C19_DelaysOnlyBetweenAttempts ==
    EpisodeEnded =>
        /\ Slept(settle_delay) = rec.restarts
        /\ Slept(retry_delay) = rec.retry_count - 1

\* C20: a cycle whose reload failed leaves the loaded desired state and the
\* cluster as they were and makes no create, scale or delete call.
C20_FailedReloadNotApplied ==
    [][error' = "config" =>
          (config' = config /\ cluster' = cluster /\ actions' = <<>>)]_vars

\* C20 witness: the reload failed while the loaded desired state asks for a
\* workload the cluster lacks.
C20_Witness ==
    /\ pc = "backoff"
    /\ error = "config"
    /\ Len(config) = 1
    /\ config[1].enabled
    /\ ~cluster[config[1].name].present

\* the workloads on the cluster, the names monitor_lfr_health was given and
\* the names that have a verdict
Present == {n \in Names : cluster[n].present}
Monitored == {deployments[i] : i \in 1..Len(deployments)}
Evaluated == {n \in Names : health_status[n] # "none"}

\* the cycle is past the listing of monitor_lfr_health
AfterListing == pc \in {"evaluate", "recover", "attempt", "settle", "interwait", "sleep"}

\* C21: the sources that get a verdict, and so can get a recovery episode,
\* are the workloads the cluster lists when the evaluation starts (none when
\* the listing fails), not the desired list: a workload created in this cycle
\* and an orphaned workload are among them, a workload deleted in this cycle
\* and a desired source without workload are not.
C21_EvaluatedAreListed ==
    /\ AfterListing => Monitored \in {Present, {}}
    /\ pc = "evaluate" => Monitored = Present
    /\ Evaluated \subseteq Monitored
    /\ (AfterListing /\ pc # "evaluate") => Evaluated = Monitored
    /\ \A n \in Names : started[n] > 0 => n \in Monitored
    /\ pc = "evaluate" =>
          /\ \A i \in 1..Len(actions) :
                /\ actions[i].kind = "Create" => actions[i].name \in Monitored
                /\ actions[i].kind = "Delete" => actions[i].name \notin Monitored
          /\ \A n \in Names :
                (current_sources[n].present /\ ~InDesired(n)) => n \in Monitored
          /\ \A i \in 1..Len(config) :
                ~cluster[config[i].name].present => config[i].name \notin Monitored

\* C21 witness: the only desired source was created in this cycle and has
\* its verdict, and the orphaned workload is next to be evaluated.
C21_Witness ==
    /\ pc = "evaluate"
    /\ Len(config) = 1
    /\ actions = <<Create(config[1].name, config[1].min)>>
    /\ ~current_sources[config[1].name].present
    /\ health_status[config[1].name] # "none"
    /\ hidx = 2
    /\ Len(deployments) = 2
    /\ ~InDesired(deployments[2])
    /\ current_sources[deployments[2]].present

\* retry_restart has finished with item i of its list
ItemDone(i) == mpc # "restart" \/ i < uidx

\* C22: retry_restart makes at most max_retries restart attempts for each
\* item of its list and none after one succeeded, logs the failure of an
\* item exactly when all max_retries attempts failed, takes the items in
\* order and leaves none out whatever became of the one before.
C22_RetryRestart ==
    /\ \A i \in 1..Len(unhealthy_instances) :
          /\ tries[i] <= retry_restart_max_retries
          /\ restarted[i] => ItemDone(i)
          /\ failure_logged[i] <=>
                (tries[i] = retry_restart_max_retries /\ ~restarted[i])
          /\ ItemDone(i) => (restarted[i] \/ failure_logged[i])
          /\ ItemDone(i) => tries[i] >= 1
          /\ (mpc = "restart" /\ i > uidx) => tries[i] = 0
    /\ mpc = "restart" =>
          /\ uidx <= Len(unhealthy_instances)
          /\ attempt = tries[uidx]
          /\ ENABLED RestartAttempt

\* C22 witness: of a list of two, the first item failed three times and its
\* failure was logged, and the second was restarted at its second attempt.
C22_Witness ==
    /\ mpc = "clear"
    /\ unhealthy_instances = <<"LFR-1", "LFR-2">>
    /\ tries = <<3, 2>>
    /\ restarted = <<FALSE, TRUE>>
    /\ failure_logged = <<TRUE, FALSE>>

\* C23: the list of unhealthy instances is empty when a monitoring cycle
\* starts, no instance is handed to retry_restart more than once in a cycle,
\* and one is handed only if its health check failed in that cycle.
C23_ListEmptyAtCycleStart ==
    /\ (mpc = "check" /\ lidx = 1) => unhealthy_instances = <<>>
    /\ mpc = "sleep" => unhealthy_instances = <<>>
    /\ \A n \in InstanceNames :
          /\ Occurrences(unhealthy_instances, n) <= 1
          /\ handed[n] <= 1
          /\ handed[n] = 1 =>
                (responses[n] # "none" /\ ~check_health(responses[n]))
    /\ \A i \in 1..Len(unhealthy_instances) :
          /\ responses[unhealthy_instances[i]] # "none"
          /\ ~check_health(responses[unhealthy_instances[i]])

\* C23 witness: a cycle is over in which the first instance failed its check
\* and was handed to retry_restart and the second was healthy and was not;
\* the list is empty again.
C23_Witness ==
    /\ mpc = "sleep"
    /\ unhealthy_instances = <<>>
    /\ responses["LFR-1"] = "500"
    /\ responses["LFR-2"] = "200"
    /\ handed["LFR-1"] = 1
    /\ handed["LFR-2"] = 0
    /\ Len(tries) = 1

====
